---------------------------- MODULE Spec2Model ----------------------------
(***************************************************************************)
(* Model of src/mech_master.py: the furnace page (session state r_*, the   *)
(* f_recalc flag, the input widgets and the four editable result widgets)  *)
(* and the ladle page's bisection solver.                                  *)
(*                                                                         *)
(* Numbers.  The script computes in binary floating point; the model       *)
(* computes in exact decimal / fixed-point integers:                       *)
(*   Ke, J            in tenths          (6.3  -> 63)                       *)
(*   Ky, Ki, Kh       in hundredths      (2.7  -> 270)                      *)
(*   cap_mva          in half MVA        (33.0 -> 66)                       *)
(*   voltages, mm     as integers                                          *)
(*   ladle lengths    in 1/2^FracBits m  (see the ladle section)           *)
(***************************************************************************)
EXTENDS Integers, Sequences, FiniteSets, TLC

VARIABLES
    app_mode,   \* the sidebar radio (line 133)
    pc,         \* "rerun": a script run is due; "idle": the page is rendered
    ev,         \* the widget whose change caused the current / last run
    inp,        \* values of the furnace input widgets (lines 163-183)
    idef,       \* defaults the five coefficient widgets were created with
    ss,         \* st.session_state: f_recalc and the r_* fields
    wid,        \* the four editable result widgets: [def, val] each
    fin,        \* what the last furnace run rendered: fin_u2, fin_i2, ...
    lin,        \* values of the ladle input widgets (lines 309-321)
    low,        \* the bisection bracket (line 343)
    high,
    iter,       \* iterations of the loop of line 344 done so far
    lpc,        \* "bisect": in the loop; "shown": H_final is rendered
    H_final,    \* the height of the last finished solve (line 349)
    prev,       \* target volume and height of the solve before, same geometry
    probe       \* two heights of the bracket and calc_vol at each: [g, h1, h2, v1, v2]

furnaceVars == <<app_mode, pc, ev, inp, idef, ss, wid, fin>>
ladleVars   == <<lin, low, high, iter, lpc, H_final, prev>>
volVars     == <<probe>>

-----------------------------------------------------------------------------
(* Data *)

Absent == 0 - 1          \* a key that is not in session state / no widget

FURNACE      == "furnace"
LADLE        == "ladle"
HANDBOOK     == "handbook"
Modes        == {FURNACE, LADLE, HANDBOOK}

\* FURNACE_DB, the presets modelled (Ke, J in tenths; Ky, Ki, Kh in hundredths)
FURNACE_DB ==
    [ SiMn |-> [Ke |-> 63, J |-> 55, Ky |-> 270, Ki |-> 640, Kh |-> 250],
      CaC2 |-> [Ke |-> 65, J |-> 70, Ky |-> 270, Ki |-> 640, Kh |-> 220] ]

Alloys       == DOMAIN FURNACE_DB
FirstAlloy   == "SiMn"                   \* list(FURNACE_DB.keys())[0]
Coefs        == {"Ke", "J", "Ky", "Ki", "Kh"}

\* values the user picks in each input widget
CapVals      == {66, 25}                 \* 33.0 MVA (the default), 12.5 MVA
U1Vals       == {35, 110}
KeVals       == {63, 65}
JVals        == {55, 70}
KyVals       == {270, 275}
KiVals       == {640, 650}
KhVals       == {250, 220}
LiningVals   == {1200, 1300}

\* values the user types into the result widgets
U2Vals       == {250}
DeVals       == {1290}
DiVals       == {9000}
ShellVals    == {12500}

InputVals(w) ==
    CASE w = "alloy"  -> Alloys
      [] w = "cap"    -> CapVals
      [] w = "u1"     -> U1Vals
      [] w = "Ke"     -> KeVals
      [] w = "J"      -> JVals
      [] w = "Ky"     -> KyVals
      [] w = "Ki"     -> KiVals
      [] w = "Kh"     -> KhVals
      [] w = "lining" -> LiningVals

InputWidgets == {"alloy", "cap", "u1", "Ke", "J", "Ky", "Ki", "Kh", "lining"}

\* what the input widgets show when they are created
DefaultInputs ==
    [ alloy |-> FirstAlloy, cap |-> 66, u1 |-> 35,
      Ke |-> FURNACE_DB[FirstAlloy].Ke, J  |-> FURNACE_DB[FirstAlloy].J,
      Ky |-> FURNACE_DB[FirstAlloy].Ky, Ki |-> FURNACE_DB[FirstAlloy].Ki,
      Kh |-> FURNACE_DB[FirstAlloy].Kh, lining |-> 1200 ]

NoDefaults   == [c \in Coefs |-> Absent]

NoWidget     == [def |-> Absent, val |-> Absent]
NoWidgets    == [u2 |-> NoWidget, de |-> NoWidget, di |-> NoWidget, shell |-> NoWidget]

NoFin        == [fin_u2 |-> Absent, fin_i2 |-> Absent, fin_de |-> Absent,
                 fin_di |-> Absent, fin_shell |-> Absent]

EmptySession ==
    [ f_recalc |-> "unset", r_u2 |-> Absent, r_de |-> Absent, r_dc |-> Absent,
      r_di |-> Absent, r_hh |-> Absent, r_shell_id |-> Absent, r_shell_h |-> Absent ]

-----------------------------------------------------------------------------
(* Arithmetic *)

\* a rounding that takes a tie upwards, as the schoolbook rule does
PyRound_half_up(n, d) == (2 * n + d) \div (2 * d)

\* Python's round(n/d) for n >= 0, d > 0: to nearest, a tie to the even integer
PyRound(n, d) ==
    LET q == n \div d
        r == n % d
    IN  IF 2 * r < d THEN q
        ELSE IF 2 * r > d THEN q + 1
        ELSE IF q % 2 = 0 THEN q ELSE q + 1

RECURSIVE SqrtSearch(_, _, _)
SqrtSearch(n, lo, hi) ==
    IF lo >= hi THEN lo
    ELSE LET m == (lo + hi + 1) \div 2
         IN  IF m * m <= n THEN SqrtSearch(n, m, hi) ELSE SqrtSearch(n, lo, m - 1)

\* floor(sqrt(n)), 0 <= n < 2^31
ISqrt(n) == SqrtSearch(n, 0, 46340)

\* p_kva ** (1/3) in thousandths, at the capacities of CapVals
CubeRootMilli(p_kva) ==
    CASE p_kva = 33000 -> 32075
      [] p_kva = 12500 -> 23208


-----------------------------------------------------------------------------
(* The furnace page: calculation (lines 186-196) *)

\* p_kva * 1000 / 1.732, rounded down
KvaOverRoot3(p_kva) ==
    LET n == p_kva * 10000
    IN  (n \div 1732) * 100 + ((n % 1732) * 100) \div 1732

\* the theoretical values the rounding block reads, from the widget values c
Theoretical(c) ==
    LET p_kva    == c.cap * 500                                \* cap_mva * 1000
        u2_milli == (c.Ke * CubeRootMilli(p_kva)) \div 10      \* u2_th, in mV
        \* i2_th = p_kva * 1000 / (1.732 * u2_th), in A
        i2_th    == (KvaOverRoot3(p_kva) * 100) \div (u2_milli \div 10)
        \* i2_th / j_val / 0.7854, times 100: the square of de_th
        de_sq    == (((i2_th * 10000) \div 7854) * 1000) \div c.J
        de_tenth == ISqrt(de_sq * 100)                         \* de_th, in 0.1 mm
    IN  [p_kva |-> p_kva, u2_milli |-> u2_milli, i2_th |-> i2_th, de_tenth |-> de_tenth]

\* fin_i2 = p_kva*1000 / (1.732*fin_u2), in A, rounded down
SecondaryCurrent(p_kva, u2) == KvaOverRoot3(p_kva) \div u2

-----------------------------------------------------------------------------
(* The furnace page: session state (lines 155-156, 199-216) *)

\* def trigger_f(): st.session_state.f_recalc = True
trigger_f(s) == [s EXCEPT !.f_recalc = "True"]

\* a first run that starts with the flag cleared
InitFlag_starts_cleared(s) ==
    IF s.f_recalc = "unset" THEN [s EXCEPT !.f_recalc = "False"] ELSE s

\* if 'f_recalc' not in st.session_state: st.session_state.f_recalc = True
InitFlag(s) == IF s.f_recalc = "unset" THEN [s EXCEPT !.f_recalc = "True"] ELSE s

\* the rounding initialisation block, run when f_recalc is set
RoundingInit(s, c) ==
    LET th   == Theoretical(c)
        r_u2 == PyRound(th.u2_milli, 1000)
        r_de == PyRound(th.de_tenth, 500) * 50
        r_dc == PyRound(r_de * c.Ky, 5000) * 50
        r_di == PyRound(r_de * c.Ki, 10000) * 100
        r_hh == PyRound(r_de * c.Kh, 10000) * 100
    IN  [ f_recalc   |-> "False",
          r_u2       |-> r_u2,
          r_de       |-> r_de,
          r_dc       |-> r_dc,
          r_di       |-> r_di,
          r_hh       |-> r_hh,
          r_shell_id |-> r_di + 2 * c.lining,
          r_shell_h  |-> r_hh + 2000 ]

\* a callback that forgets the shell diameter
update_furnace_dims_stale_shell(s, d, c) ==
    LET r_dc == PyRound(d * c.Ky, 5000) * 50
        r_di == PyRound(d * c.Ki, 10000) * 100
        r_hh == PyRound(d * c.Kh, 10000) * 100
    IN  [ s EXCEPT !.r_de       = d,
                   !.r_dc       = r_dc,
                   !.r_di       = r_di,
                   !.r_hh       = r_hh,
                   !.r_shell_h  = r_hh + 2000 ]

\* the callback of the De widget; ky, ki, kh, lining are the script's
\* variables of the run that rendered the widget
update_furnace_dims(s, d, c) ==
    LET r_dc == PyRound(d * c.Ky, 5000) * 50
        r_di == PyRound(d * c.Ki, 10000) * 100
        r_hh == PyRound(d * c.Kh, 10000) * 100
    IN  [ s EXCEPT !.r_de       = d,
                   !.r_dc       = r_dc,
                   !.r_di       = r_di,
                   !.r_hh       = r_hh,
                   !.r_shell_id = r_di + 2 * c.lining,
                   !.r_shell_h  = r_hh + 2000 ]

-----------------------------------------------------------------------------
(* Widgets *)

\* a widget that shows its default on every run
NumberInput_always_default(w, default) == [def |-> default, val |-> default]

\* A widget call with default `default`: the widget keeps the value the
\* user gave it as long as the call's arguments are those it was created
\* with; a call with another default makes a new widget showing that default.
NumberInput(w, default) ==
    IF w.def = default THEN w ELSE [def |-> default, val |-> default]

\* The coefficient inputs of lines 177-182: value=defs[...] of the alloy chosen
CoefInputs(c, d) ==
    LET defs == FURNACE_DB[c.alloy]
    IN  [ c EXCEPT !.Ke = IF d.Ke = defs.Ke THEN c.Ke ELSE defs.Ke,
                   !.J  = IF d.J  = defs.J  THEN c.J  ELSE defs.J,
                   !.Ky = IF d.Ky = defs.Ky THEN c.Ky ELSE defs.Ky,
                   !.Ki = IF d.Ki = defs.Ki THEN c.Ki ELSE defs.Ki,
                   !.Kh = IF d.Kh = defs.Kh THEN c.Kh ELSE defs.Kh ]

\* The result widgets of lines 230-251, given session state s
ResultInputs(w, s) ==
    [ u2    |-> NumberInput(w.u2, s.r_u2),
      de    |-> NumberInput(w.de, s.r_de),
      di    |-> NumberInput(w.di, s.r_di),
      shell |-> NumberInput(w.shell, s.r_shell_id) ]

-----------------------------------------------------------------------------
(* Actions of the furnace page *)

FurnaceInit ==
    /\ app_mode = FURNACE
    /\ pc = "rerun"
    /\ ev = "start"
    /\ inp = DefaultInputs
    /\ idef = NoDefaults
    /\ ss = EmptySession
    /\ wid = NoWidgets
    /\ fin = NoFin

\* the sidebar radio
SwitchMode ==
    /\ pc = "idle"
    /\ \E m \in Modes \ {app_mode} : app_mode' = m
    /\ pc' = "rerun"
    /\ ev' = "mode"
    /\ UNCHANGED <<inp, idef, ss, wid, fin>>

\* an input widget with on_change=trigger_f gets a new value
ChangeInput ==
    /\ pc = "idle"
    /\ app_mode = FURNACE
    /\ \E w \in InputWidgets : \E v \in InputVals(w) \ {inp[w]} :
          /\ inp' = [inp EXCEPT ![w] = v]
          /\ ev' = w
    /\ ss' = trigger_f(ss)
    /\ pc' = "rerun"
    /\ UNCHANGED <<app_mode, idef, wid, fin>>

\* the U2 widget (no key, no callback)
OverrideU2 ==
    /\ pc = "idle"
    /\ app_mode = FURNACE
    /\ \E v \in U2Vals \ {wid.u2.val} : wid' = [wid EXCEPT !.u2.val = v]
    /\ ev' = "U2"
    /\ pc' = "rerun"
    /\ UNCHANGED <<app_mode, inp, idef, ss, fin>>

\* the De widget (key in_de_val, on_change=update_furnace_dims)
OverrideDe ==
    /\ pc = "idle"
    /\ app_mode = FURNACE
    /\ \E d \in DeVals \ {wid.de.val} :
          /\ wid' = [wid EXCEPT !.de.val = d]
          /\ ss' = update_furnace_dims(ss, d, inp)
    /\ ev' = "De"
    /\ pc' = "rerun"
    /\ UNCHANGED <<app_mode, inp, idef, fin>>

\* the Di widget (key in_di_val, no callback)
OverrideDi ==
    /\ pc = "idle"
    /\ app_mode = FURNACE
    /\ \E v \in DiVals \ {wid.di.val} : wid' = [wid EXCEPT !.di.val = v]
    /\ ev' = "Di"
    /\ pc' = "rerun"
    /\ UNCHANGED <<app_mode, inp, idef, ss, fin>>

\* the Shell widget (key in_shell_val, no callback)
OverrideShell ==
    /\ pc = "idle"
    /\ app_mode = FURNACE
    /\ \E v \in ShellVals \ {wid.shell.val} : wid' = [wid EXCEPT !.shell.val = v]
    /\ ev' = "Shell"
    /\ pc' = "rerun"
    /\ UNCHANGED <<app_mode, inp, idef, ss, fin>>

\* one run of the script with the furnace page selected (lines 150-293)
RunFurnace ==
    /\ pc = "rerun"
    /\ app_mode = FURNACE
    /\ LET s0 == InitFlag(ss)
           c  == CoefInputs(inp, idef)
           s1 == IF s0.f_recalc = "True" THEN RoundingInit(s0, c) ELSE s0
           w  == ResultInputs(wid, s1)
       IN  /\ inp' = c
           /\ idef' = [k \in Coefs |-> FURNACE_DB[c.alloy][k]]
           /\ ss' = s1
           /\ wid' = w
           /\ fin' = [ fin_u2    |-> w.u2.val,
                       fin_i2    |-> SecondaryCurrent(Theoretical(c).p_kva, w.u2.val),
                       fin_de    |-> w.de.val,
                       fin_di    |-> w.di.val,
                       fin_shell |-> w.shell.val ]
    /\ pc' = "idle"
    /\ UNCHANGED <<app_mode, ev>>

\* one run of the script with another page selected: no furnace widget is
\* called, so their state is dropped and the next furnace run creates them
\* anew with their defaults; the other session-state keys stay
RunOther ==
    /\ pc = "rerun"
    /\ app_mode # FURNACE
    /\ inp' = DefaultInputs
    /\ idef' = NoDefaults
    /\ wid' = NoWidgets
    /\ fin' = NoFin
    /\ pc' = "idle"
    /\ UNCHANGED <<app_mode, ev, ss>>


-----------------------------------------------------------------------------
(* The ladle page: fixed-point arithmetic *)

\* Lengths, areas and volumes are integers counting 1/2^FracBits of a metre
\* (square metre, cubic metre); every product is rounded down to that grid,
\* as the script's floats are rounded to theirs.
FracBits   == 14
Iterations == 50                         \* for _ in range(50)

RECURSIVE Pow2(_)
Pow2(n) == IF n = 0 THEN 1 ELSE 2 * Pow2(n - 1)

One == Pow2(FracBits)

\* n / d on the grid
Fx(n, d) == (n * One) \div d

\* a * b on the grid, for a, b >= 0
FxMul(a, b) ==
    LET a1 == a \div One
        a0 == a % One
        b1 == b \div One
        b0 == b % One
    IN  a1 * b1 * One + a1 * b0 + a0 * b1 + (a0 * b0) \div One

\* tan(radians(angle)) on the grid, at the angles of AngleVals
TanFx(angle) ==
    CASE angle = 5  -> Fx(8749, 100000)
      [] angle = 10 -> Fx(17633, 100000)
      [] angle = 15 -> Fx(26795, 100000)

\* (1/3) * pi = 1.047198 on the grid
ThirdPi == One + Fx(47198, 1000000)

LowInit  == Fx(1, 2)                     \* 0.5
HighInit == 10 * One                     \* 10.0

\* values the user picks in the ladle widgets
VolVals    == {10, 45, 500}              \* vol, in tenths of a cubic metre
ArVals     == {50, 60, 105}              \* st.session_state.ar, in hundredths
AngleVals  == {5, 10, 15}                \* degrees
WallVals   == {160, 500}                 \* mm
BotVals    == {230}                      \* mm
FreeVals   == {300}                      \* mm

LadleWidgets == {"ar", "angle", "t_wall", "t_bot", "freeboard"}

LadleVals(w) ==
    CASE w = "ar"        -> ArVals
      [] w = "angle"     -> AngleVals
      [] w = "t_wall"    -> WallVals
      [] w = "t_bot"     -> BotVals
      [] w = "freeboard" -> FreeVals

\* the defaults of lines 302-321
DefaultLadle ==
    [vol |-> 45, ar |-> 105, angle |-> 5, t_wall |-> 160, t_bot |-> 230, freeboard |-> 300]

NoSolve == [vol |-> Absent, H |-> Absent]

\* a calc_vol without the guard on the cavity's bottom radius
calc_vol_no_cavity_guard(h, g) ==
    LET tan_a     == TanFx(g.angle)
        h_liq     == h - Fx(g.t_bot, 1000) - Fx(g.freeboard, 1000)
        r_top     == FxMul(Fx(g.ar, 100), h) \div 2
        r_bot     == r_top - FxMul(h, tan_a)
        r_liq_top == r_top - Fx(g.t_wall, 1000)
        r_liq_bot == (r_bot + FxMul(Fx(g.t_bot, 1000), tan_a)) - Fx(g.t_wall, 1000)
        Mag(x)    == IF x < 0 THEN 0 - x ELSE x
        Cross     == IF (r_liq_bot < 0) = (r_liq_top < 0)
                     THEN FxMul(Mag(r_liq_bot), Mag(r_liq_top))
                     ELSE 0 - FxMul(Mag(r_liq_bot), Mag(r_liq_top))
    IN  IF h_liq <= 0 THEN 0
        ELSE IF r_bot <= 0 THEN 0
        ELSE FxMul(FxMul(ThirdPi, h_liq),
                   FxMul(Mag(r_liq_bot), Mag(r_liq_bot))
                     + FxMul(Mag(r_liq_top), Mag(r_liq_top)) + Cross)

\* def calc_vol(h), with the widget values g
calc_vol(h, g) ==
    LET tan_a     == TanFx(g.angle)
        h_liq     == h - Fx(g.t_bot, 1000) - Fx(g.freeboard, 1000)
        r_top     == FxMul(Fx(g.ar, 100), h) \div 2
        r_bot     == r_top - FxMul(h, tan_a)
        r_liq_top == r_top - Fx(g.t_wall, 1000)
        r_liq_bot == (r_bot + FxMul(Fx(g.t_bot, 1000), tan_a)) - Fx(g.t_wall, 1000)
    IN  IF h_liq <= 0 THEN 0
        ELSE IF r_bot <= 0 THEN 0
        ELSE IF r_liq_bot <= 0 THEN 0
        ELSE FxMul(FxMul(ThirdPi, h_liq),
                   FxMul(r_liq_bot, r_liq_bot) + FxMul(r_liq_top, r_liq_top)
                     + FxMul(r_liq_bot, r_liq_top))

\* a loop body that never lowers the upper bound
Bisect_high_stays(lo, hi, g) ==
    LET mid == (lo + hi) \div 2
    IN  IF calc_vol(mid, g) < Fx(g.vol, 10) THEN <<mid, hi>> ELSE <<lo, hi>>

\* a loop body with the two branches exchanged
Bisect_swapped(lo, hi, g) ==
    LET mid == (lo + hi) \div 2
    IN  IF calc_vol(mid, g) < Fx(g.vol, 10) THEN <<lo, mid>> ELSE <<mid, hi>>

\* one pass of the loop body: the new <<low, high>>
Bisect(lo, hi, g) ==
    LET mid == (lo + hi) \div 2
    IN  IF calc_vol(mid, g) < Fx(g.vol, 10) THEN <<mid, hi>> ELSE <<lo, mid>>

\* a result taken from the lower bound
FinalHeight_low(lo, hi) == lo

\* H_final = high
FinalHeight(lo, hi) == hi

-----------------------------------------------------------------------------
(* Actions of the ladle page *)

LadleInit ==
    /\ lin = DefaultLadle
    /\ low = LowInit
    /\ high = HighInit
    /\ iter = 0
    /\ lpc = "bisect"
    /\ H_final = Absent
    /\ prev = NoSolve

\* the volume widget gets a new value: the script runs again
ChangeVol ==
    /\ lpc = "shown"
    /\ \E v \in VolVals \ {lin.vol} : lin' = [lin EXCEPT !.vol = v]
    /\ prev' = [vol |-> lin.vol, H |-> H_final]
    /\ low' = LowInit
    /\ high' = HighInit
    /\ iter' = 0
    /\ lpc' = "bisect"
    /\ UNCHANGED H_final

\* a geometry widget gets a new value: the script runs again
ChangeGeometry ==
    /\ lpc = "shown"
    /\ \E w \in LadleWidgets : \E v \in LadleVals(w) \ {lin[w]} :
          lin' = [lin EXCEPT ![w] = v]
    /\ prev' = NoSolve
    /\ low' = LowInit
    /\ high' = HighInit
    /\ iter' = 0
    /\ lpc' = "bisect"
    /\ UNCHANGED H_final

\* one iteration of the loop of lines 344-347
BisectStep ==
    /\ lpc = "bisect"
    /\ iter < Iterations
    /\ low' = Bisect(low, high, lin)[1]
    /\ high' = Bisect(low, high, lin)[2]
    /\ iter' = iter + 1
    /\ UNCHANGED <<lin, lpc, H_final, prev>>

\* line 349 and the rendering after it
Finish ==
    /\ lpc = "bisect"
    /\ iter = Iterations
    /\ H_final' = FinalHeight(low, high)
    /\ lpc' = "shown"
    /\ UNCHANGED <<lin, low, high, iter, prev>>

-----------------------------------------------------------------------------
(* calc_vol at two heights of the bracket *)

\* distance between neighbouring heights: 0.125 m
ProbeStep == One \div 8

\* calc_vol at h1 and at h2, with the widget values g
Evaluate(g, h1, h2) ==
    [g |-> g, h1 |-> h1, h2 |-> h2, v1 |-> calc_vol(h1, g), v2 |-> calc_vol(h2, g)]

\* the two ends of the bracket, with the default widgets
ProbeInit == probe = Evaluate(DefaultLadle, LowInit, HighInit)

\* a geometry widget gets a new value
ProbeGeometry ==
    \E w \in LadleWidgets : \E v \in LadleVals(w) \ {probe.g[w]} :
        probe' = Evaluate([probe.g EXCEPT ![w] = v], probe.h1, probe.h2)

\* the lower height moves to a neighbour, staying in [0.5, h2)
ProbeLower ==
    \E h \in {probe.h1 - ProbeStep, probe.h1 + ProbeStep} :
        /\ LowInit <= h
        /\ h < probe.h2
        /\ probe' = Evaluate(probe.g, h, probe.h2)

\* the upper height moves to a neighbour, staying in (h1, 10.0]
ProbeUpper ==
    \E h \in {probe.h2 - ProbeStep, probe.h2 + ProbeStep} :
        /\ probe.h1 < h
        /\ h <= HighInit
        /\ probe' = Evaluate(probe.g, probe.h1, h)

-----------------------------------------------------------------------------
(* Specifications *)

vars == <<furnaceVars, ladleVars, volVars>>

Init == FurnaceInit /\ LadleInit /\ ProbeInit

\* the furnace page and the sidebar
Next ==
    \/ SwitchMode /\ UNCHANGED <<ladleVars, volVars>>
    \/ ChangeInput /\ UNCHANGED <<ladleVars, volVars>>
    \/ OverrideU2 /\ UNCHANGED <<ladleVars, volVars>>
    \/ OverrideDe /\ UNCHANGED <<ladleVars, volVars>>
    \/ OverrideDi /\ UNCHANGED <<ladleVars, volVars>>
    \/ OverrideShell /\ UNCHANGED <<ladleVars, volVars>>
    \/ RunFurnace /\ UNCHANGED <<ladleVars, volVars>>
    \/ RunOther /\ UNCHANGED <<ladleVars, volVars>>

Spec == Init /\ [][Next]_vars

\* the ladle page's solver
LadleNext ==
    \/ ChangeVol /\ UNCHANGED <<furnaceVars, volVars>>
    \/ ChangeGeometry /\ UNCHANGED <<furnaceVars, volVars>>
    \/ BisectStep /\ UNCHANGED <<furnaceVars, volVars>>
    \/ Finish /\ UNCHANGED <<furnaceVars, volVars>>

SpecLadle == Init /\ [][LadleNext]_vars

\* calc_vol over the bracket
VolNext ==
    \/ ProbeGeometry /\ UNCHANGED <<furnaceVars, ladleVars>>
    \/ ProbeLower /\ UNCHANGED <<furnaceVars, ladleVars>>
    \/ ProbeUpper /\ UNCHANGED <<furnaceVars, ladleVars>>

SpecVol == Init /\ [][VolNext]_vars

-----------------------------------------------------------------------------
(* Properties of the furnace page *)

Abs(x) == IF x < 0 THEN 0 - x ELSE x

\* x is a multiple of inc nearest to n/den (either neighbour on a tie)
Nearest(x, n, den, inc) ==
    /\ x % inc = 0
    /\ 2 * Abs(x * den - n) <= inc * den

\* x is the multiple of inc nearest to n/den, a tie going away from zero
NearestTieAway(x, n, den, inc) ==
    x = inc * ((2 * n + inc * den) \div (2 * inc * den))

\* x is the multiple of inc nearest to n/den, a tie going to the even multiple
NearestTieEven(x, n, den, inc) ==
    /\ Nearest(x, n, den, inc)
    /\ (2 * Abs(x * den - n) = inc * den) => ((x \div inc) % 2 = 0)

LeafEvents   == {"U2", "Di", "Shell"}

\* the result widget an override event edits
Edited(e) ==
    CASE e = "U2" -> "u2" [] e = "Di" -> "di" [] e = "Shell" -> "shell" [] e = "De" -> "de"

\* the values the user types into that widget
Typed(e) ==
    CASE e = "U2" -> U2Vals [] e = "Di" -> DiVals [] e = "Shell" -> ShellVals [] e = "De" -> DeVals

\* the stored downstream fields of s are the images of anchor s.r_de under c
DownstreamOf(s, c) ==
    /\ Nearest(s.r_dc, s.r_de * c.Ky, 100, 50)
    /\ Nearest(s.r_di, s.r_de * c.Ki, 100, 100)
    /\ Nearest(s.r_hh, s.r_de * c.Kh, 100, 100)
    /\ s.r_shell_id = s.r_di + 2 * c.lining
    /\ s.r_shell_h = s.r_hh + 2000

\* C1: an anchor override De = d leaves the stored fields at r_de = d, r_dc, r_di
\* and r_hh the multiples of 50, 100 and 100 nearest to d*Ky, d*Ki and d*Kh,
\* r_shell_id = r_di + 2*lining, r_shell_h = r_hh + 2000, and r_u2 as it was;
\* this holds after the callback and after the script run that follows it.
C1_AnchorPropagation ==
    [][ ev' = "De" =>
          /\ ss'.r_de = wid'.de.val
          /\ ss'.r_de \in DeVals
          /\ DownstreamOf(ss', inp')
          /\ ss'.r_u2 = ss.r_u2 ]_vars

C1_Witness ==
    /\ ev = "De"
    /\ pc = "idle"
    /\ ss.r_de = 1290
    /\ ss.r_dc = 3550
    /\ ss.r_shell_id = 8300 + 2600
    /\ fin.fin_u2 = 250

\* C2: editing a leaf widget (U2, Di, Shell) changes that widget's value to
\* what the user typed and nothing else: no session-state field, no input and
\* no other result widget changes, in the event and in the run after it; and
\* the run after a U2 edit shows I2' = 1000*P / (1.732 * the edited U2).
C2_LeafIsolation ==
    [][ ev' \in LeafEvents =>
          /\ ss' = ss
          /\ inp' = inp
          /\ wid'[Edited(ev')].val \in Typed(ev')
          /\ \A w \in DOMAIN wid : w # Edited(ev') => wid'[w] = wid[w]
          /\ pc' = "idle" =>
                /\ fin'.fin_u2 = wid'.u2.val
                /\ fin'.fin_de = ss.r_de
                /\ fin'.fin_di = wid'.di.val
                /\ fin'.fin_shell = wid'.shell.val
                /\ fin'.fin_i2 = KvaOverRoot3(inp.cap * 500) \div fin'.fin_u2 ]_vars

C2_Witness ==
    /\ ev = "U2"
    /\ pc = "idle"
    /\ fin.fin_u2 = 250
    /\ ss.r_u2 = 202
    /\ fin.fin_i2 = 76212
    /\ fin.fin_di = 9000

\* C3: once an input widget has changed and the script has run again, the
\* stored fields are those of a full reset with the current inputs and no
\* override is left: every result widget shows its stored field.
C3_FullReset ==
    (pc = "idle" /\ ev \in InputWidgets) =>
        /\ ss.f_recalc = "False"
        /\ Nearest(ss.r_u2, Theoretical(inp).u2_milli, 1000, 1)
        /\ Nearest(ss.r_de, Theoretical(inp).de_tenth, 10, 50)
        /\ DownstreamOf(ss, inp)
        /\ fin.fin_u2 = ss.r_u2
        /\ fin.fin_de = ss.r_de
        /\ fin.fin_di = ss.r_di
        /\ fin.fin_shell = ss.r_shell_id

\* C4: once the anchor De has been overridden and the script has run again,
\* the leaf widgets Di and Shell show the formula images of the new anchor,
\* whatever the user had typed into them before.
C4_StaleLeafDiscarded ==
    (pc = "idle" /\ ev = "De") =>
        /\ fin.fin_di = ss.r_di
        /\ Nearest(fin.fin_di, ss.r_de * inp.Ki, 100, 100)
        /\ fin.fin_shell = ss.r_shell_id
        /\ fin.fin_shell = fin.fin_di + 2 * inp.lining

\* the stored fields were rounded from the current inputs by the last step
JustReset    == pc = "idle" /\ ev \in InputWidgets \cup {"start"}
JustAnchored == ev = "De"

\* C5 as stated: every rounding the engine performs gives the nearest
\* multiple of its increment, a tie going away from zero.
C5_TiesAwayFromZero ==
    /\ JustReset =>
          /\ NearestTieAway(ss.r_u2, Theoretical(inp).u2_milli, 1000, 1)
          /\ NearestTieAway(ss.r_de, Theoretical(inp).de_tenth, 10, 50)
    /\ (JustReset \/ JustAnchored) =>
          /\ NearestTieAway(ss.r_dc, ss.r_de * inp.Ky, 100, 50)
          /\ NearestTieAway(ss.r_di, ss.r_de * inp.Ki, 100, 100)
          /\ NearestTieAway(ss.r_hh, ss.r_de * inp.Kh, 100, 100)

\* C5 as amended: every rounding the engine performs gives the nearest
\* multiple of its increment, a tie going to the even multiple.
C5_TiesToEven ==
    /\ JustReset =>
          /\ NearestTieEven(ss.r_u2, Theoretical(inp).u2_milli, 1000, 1)
          /\ NearestTieEven(ss.r_de, Theoretical(inp).de_tenth, 10, 50)
    /\ (JustReset \/ JustAnchored) =>
          /\ NearestTieEven(ss.r_dc, ss.r_de * inp.Ky, 100, 50)
          /\ NearestTieEven(ss.r_di, ss.r_de * inp.Ki, 100, 100)
          /\ NearestTieEven(ss.r_hh, ss.r_de * inp.Kh, 100, 100)

\* a reset that meets ties: 1300 * 2.5 / 100 = 32.5 and 1300 * 2.75 / 50 = 71.5
C5_Witness ==
    /\ JustReset
    /\ ss.r_de = 1300
    /\ inp.Kh = 250
    /\ ss.r_hh = 3200
    /\ inp.Ky = 275
    /\ ss.r_dc = 3600

\* C6: whenever the furnace page is rendered, r_shell_id = r_di + 2*lining
\* with the lining thickness the page shows, and r_shell_h = r_hh + 2000.
C6_ShellAdditive ==
    (pc = "idle" /\ app_mode = FURNACE) =>
        /\ ss.r_shell_id = ss.r_di + 2 * inp.lining
        /\ ss.r_shell_h = ss.r_hh + 2000

\* C7: whenever the furnace page is rendered and no reset is pending, Dc and
\* Hh are the increment-snapped images of the anchor De under the current
\* coefficients, and Di is that image or a value the user typed into it; and
\* the stored fields change only in a reset or an anchor override.
C7_ImageOrOverride ==
    (pc = "idle" /\ app_mode = FURNACE /\ ss.f_recalc = "False") =>
        /\ Nearest(ss.r_dc, ss.r_de * inp.Ky, 100, 50)
        /\ Nearest(ss.r_hh, ss.r_de * inp.Kh, 100, 100)
        /\ \/ Nearest(fin.fin_di, ss.r_de * inp.Ki, 100, 100)
           \/ fin.fin_di \in DiVals

-----------------------------------------------------------------------------
(* Properties of the ladle page *)

\* the target volume on the grid
Target(g) == Fx(g.vol, 10)

\* heights of the bracket [0.5, 10.0], one every 0.125 m, both ends included
ProbeHeights == { LowInit + k * (One \div 8) : k \in 0..76 }

\* the target is reached at 10.0 and some height of the bracket holds a
\* positive volume below it: the root lies where calc_vol is a frustum
Bracketed(g) ==
    /\ calc_vol(HighInit, g) >= Target(g)
    /\ \E h \in ProbeHeights : 0 < calc_vol(h, g) /\ calc_vol(h, g) < Target(g)

\* no height of the bracket reaches the target
UnreachableTarget(g) == \A h \in ProbeHeights : calc_vol(h, g) < Target(g)

\* |calc_vol(H) - vol| <= 1e-3 * vol
RoundTrip(H, g) == Abs(calc_vol(H, g) - Target(g)) <= Target(g) \div 1000

\* C8, as stated: for every input of the widgets, the height the solver
\* returns, fed back into calc_vol, gives the target volume within
\* 1e-3 * target.
C8_RoundTrip ==
    lpc = "shown" => RoundTrip(H_final, lin)

\* C8, amended: the round trip holds within 1e-3 * target for the inputs
\* whose target is reached at 10.0 and lies above a positive volume of the
\* bracket; an unreachable target, and a target below the volume at which a
\* geometry stops being degenerate, are not reproduced.
C8_RoundTripBracketed ==
    lpc = "shown" /\ Bracketed(lin) => RoundTrip(H_final, lin)

\* the default ladle is solved: 4.5 cubic metres at a height between 2 and 4 m
C8_Witness ==
    /\ lpc = "shown"
    /\ lin = DefaultLadle
    /\ Bracketed(lin)
    /\ 2 * One < H_final
    /\ H_final < 4 * One
    /\ RoundTrip(H_final, lin)

C10_UnreachableReturnsUpperBound ==
    lpc = "shown" /\ UnreachableTarget(lin) => H_final = HighInit

\* a degenerate geometry has been solved: the height is 10.0
C10_Witness ==
    /\ lpc = "shown"
    /\ UnreachableTarget(lin)
    /\ calc_vol(HighInit, lin) = 0
    /\ H_final = HighInit

\* C11, as stated: for a fixed geometry calc_vol is strictly increasing over
\* the bracket: h1 < h2 gives calc_vol(h1) < calc_vol(h2), the heights where
\* a guard returns 0 included.
C11_StrictlyIncreasing ==
    probe.h1 < probe.h2 => probe.v1 < probe.v2

\* C11, amended: for a fixed geometry calc_vol is non-decreasing over the
\* bracket, 0 at the heights where a guard applies, and strictly increasing
\* over the heights where it is positive.
C11_NonDecreasing ==
    probe.h1 < probe.h2 =>
        /\ probe.v1 <= probe.v2
        /\ probe.v1 > 0 => probe.v1 < probe.v2

\* two neighbouring heights of a slender ladle, both with a positive volume
C11_Witness ==
    /\ probe.g.ar = 60
    /\ probe.g.angle = 15
    /\ probe.h2 = probe.h1 + ProbeStep
    /\ probe.v1 > 0
    /\ probe.v1 < probe.v2

-----------------------------------------------------------------------------
(* The pending-reset flag *)

\* every rounded field of s has a value
Rounded(s) ==
    \A k \in {"r_u2", "r_de", "r_dc", "r_di", "r_hh", "r_shell_id", "r_shell_h"} :
        s[k] # Absent

=============================================================================
